---- MODULE Spec2Model ----
(***************************************************************************)
(* Market operations of pm-js (src/src/markets.js): createMarket,          *)
(* buyOutcomeTokens, sellOutcomeTokens and shortSellOutcomeTokens.         *)
(*                                                                         *)
(* Every operation is an async function.  The code between two awaits runs *)
(* atomically, so an action here is the resumption of an invocation after  *)
(* the contract call it awaits has settled: it consumes the value of that  *)
(* call, runs the code up to the next await and issues the call awaited    *)
(* there.  pc[i] names the call invocation i is awaiting.                  *)
(***************************************************************************)
EXTENDS Integers, Sequences, FiniteSets, TLC

\* One entry per invocation i:
\*   op[i]        the operation invoked (markets.js:20, 46, 90, 135)
\*   pc[i]        the call the invocation awaits, or idle / done / rejected
\*   args[i]      [marketAddress, outcomeTokenIndex, outcomeTokenCount] (l. 47)
\*   token[i]     collateralToken / outcomeToken (l. 58, 102)
\*   base[i]      baseCost / baseProfit (l. 63, 107)
\*   fee[i]       the value of market.calcMarketFee(base) (l. 64, 108)
\*   total[i]     cost / minProfit (l. 64, 108)
\*   confirmed[i] the transaction awaited has been included
\*   receipt[i]   the decoded events of its receipt
\*   log[i]       the contract calls issued so far, in order
\*   result[i]    the value the invocation resolved with
\*   err[i]       the error the invocation rejected with
\* and on the chain:
\*   allowance[t] what the caller allows the market to transfer of token t,
\*                as set by the last approve(marketAddress, amount) (l. 66, 110)
VARIABLES op, pc, args, token, base, fee, total, confirmed, receipt, log,
          result, err, allowance

vars == <<op, pc, args, token, base, fee, total, confirmed, receipt, log,
          result, err, allowance>>

(* ------------------------------ bounds --------------------------------- *)

\* largest amount a pricing query, a fee query or an event field reports
MaxAmt == 1
\* largest outcome token index / outcome token count a caller passes
MaxCount == 2
\* largest number of decoded events in one receipt
MaxLogs == 2

Amounts == 0..MaxAmt

\* the invocations in flight; Solo is the one the sequential specification runs
Procs == {"p1", "p2"}
Solo == {"p1"}

(* --------------------------- the four operations ----------------------- *)

Ops == {"createMarket", "buyOutcomeTokens", "sellOutcomeTokens",
        "shortSellOutcomeTokens"}
TradeOps == Ops \ {"createMarket"}

ReadCalls == {"eventContract", "collateralToken", "outcomeTokens",
              "calcCost", "calcProfit", "calcMarketFee"}
MainCalls == {"createMarket", "buy", "sell", "shortSell"}
TxCalls == MainCalls \cup {"approve"}
Calls == ReadCalls \cup TxCalls

(* ------------------------- deployed contracts -------------------------- *)

\* the address of the one deployed market the callers trade on
MarketAddr == 100
\* this.lmsrMarketMaker and opts.marketFactory
lmsrMarketMaker == 50
marketFactory == 60

\* market.eventContract(), event.collateralToken(), event.outcomeTokens(idx):
\* what the chain answers (fixed once the contracts are deployed)
eventContractOf(m) == m + 1
collateralTokenOf(e) == e + 1
outcomeTokensOf(e, idx) == e + 1 + idx

Tokens == {collateralTokenOf(eventContractOf(MarketAddr))}
            \cup {outcomeTokensOf(eventContractOf(MarketAddr), k) : k \in 1..MaxCount}

(* --------------------------- Argument Normalizer ----------------------- *)

Junk == [kind |-> "junk", v |-> 0]

\* the loosely typed values a caller may pass for a parameter of a type
RawOf(type) ==
    IF type = "address"
    THEN {[kind |-> k, v |-> MarketAddr] : k \in {"hex", "contract"}} \cup {Junk}
    ELSE {[kind |-> "number", v |-> n] : n \in 1..MaxCount}
           \cup {[kind |-> "string", v |-> MaxCount], Junk}

\* functionInputs of each operation
functionInputs(o) ==
    IF o = "createMarket"
    THEN << [name |-> "eventContract", type |-> "address"],
            [name |-> "marketMaker", type |-> "address"],
            [name |-> "fee", type |-> "uint24"] >>
    ELSE << [name |-> "market", type |-> "address"],
            [name |-> "outcomeTokenIndex", type |-> "uint8"],
            [name |-> "outcomeTokenCount", type |-> "uint256"] >>

\* argAliases: the internal name an external parameter name stands for
argAliases(o, k) ==
    IF o = "createMarket" /\ k = "event" THEN "eventContract" ELSE k

\* the name a caller uses for a parameter
ExternalName(o, n) ==
    IF o = "createMarket" /\ n = "eventContract" THEN "event" ELSE n

CoerceOk(type, x) ==
    IF type = "address" THEN x.kind \in {"hex", "contract"}
    ELSE x.kind \in {"number", "string", "bignumber"}

\* normalizeWeb3Args: the ordered typed list, or ArgumentError
normalizeWeb3Args(call, o) ==
    LET sig == functionInputs(o)
        names == {sig[k].name : k \in 1..Len(sig)}
    IN  IF call.shape = "positional"
        THEN IF Len(call.vals) = Len(sig)
                 /\ \A k \in 1..Len(sig) : CoerceOk(sig[k].type, call.vals[k])
             THEN [ok |-> TRUE, val |-> [k \in 1..Len(sig) |-> call.vals[k].v]]
             ELSE [ok |-> FALSE, val |-> <<0, 0, 0>>]
        ELSE LET keys == DOMAIN call.opts
                 given == {argAliases(o, k) : k \in keys}
                 KeyOf(n) == CHOOSE k \in keys : argAliases(o, k) = n
             IN  IF given = names
                     /\ \A k \in 1..Len(sig) :
                           CoerceOk(sig[k].type, call.opts[KeyOf(sig[k].name)])
                 THEN [ok |-> TRUE,
                       val |-> [k \in 1..Len(sig) |-> call.opts[KeyOf(sig[k].name)].v]]
                 ELSE [ok |-> FALSE, val |-> <<0, 0, 0>>]

\* the calls a caller may make of operation o: positional or named, complete,
\* one value short, one value or one unknown name too many
FullLists(o) ==
    LET sig == functionInputs(o)
    IN  {s \in [1..Len(sig) -> RawOf("address") \cup RawOf("uint")] :
            \A k \in 1..Len(sig) : s[k] \in RawOf(sig[k].type)}

PositionalCalls(o) ==
    {[shape |-> "positional", vals |-> s] : s \in FullLists(o)}
      \cup {[shape |-> "positional", vals |-> SubSeq(s, 1, Len(s) - 1)] : s \in FullLists(o)}
      \cup {[shape |-> "positional", vals |-> Append(s, Junk)] : s \in FullLists(o)}

NamedOpts(o, s, keep, extra) ==
    LET sig == functionInputs(o)
        keys == {ExternalName(o, sig[k].name) : k \in keep} \cup extra
        IndexOf(key) == CHOOSE k \in 1..Len(sig) : ExternalName(o, sig[k].name) = key
    IN  [key \in keys |-> IF key \in extra THEN Junk ELSE s[IndexOf(key)]]

NamedCalls(o) ==
    LET all == 1..Len(functionInputs(o))
    IN  {[shape |-> "named", opts |-> NamedOpts(o, s, all, {})] : s \in FullLists(o)}
          \cup {[shape |-> "named", opts |-> NamedOpts(o, s, all \ {d}, {})] :
                    s \in FullLists(o), d \in all}
          \cup {[shape |-> "named", opts |-> NamedOpts(o, s, all, {"bogus"})] :
                    s \in FullLists(o)}

RawCalls(o) == PositionalCalls(o) \cup NamedCalls(o)

(* -------------------------- Transaction Dispatcher --------------------- *)

\* the event a contract method emits when it succeeds, and the one field of
\* that event the model keeps (the deployed contracts' ABI)
AbiEvent(c) ==
    CASE c = "createMarket" -> "MarketCreation"
      [] c = "buy" -> "OutcomeTokenPurchase"
      [] c = "sell" -> "OutcomeTokenSale"
      [] c = "shortSell" -> "OutcomeTokenShortSale"
      [] c = "approve" -> "Approval"
      [] OTHER -> "none"

AbiField(e) ==
    CASE e = "MarketCreation" -> "market"
      [] e = "OutcomeTokenPurchase" -> "cost"
      [] e = "OutcomeTokenSale" -> "profit"
      [] e = "OutcomeTokenShortSale" -> "cost"
      [] OTHER -> "value"

\* a decoded event: its name and its fields
Event(e, v) == [event |-> e, args |-> [f \in {AbiField(e)} |-> v]]

\* the decoded events a confirmed transaction of method c may carry: the
\* method's own event and an unrelated one (a token Transfer)
EventsOf(c) == {Event(e, v) : e \in {AbiEvent(c), "Transfer"}, v \in Amounts}

\* every receipt of at most MaxLogs events
Receipts(c) == UNION {[1..n -> EventsOf(c)] : n \in 0..MaxLogs}

\* the receipts of a contract that emits exactly its own event, once
PlainReceipts(c) == {<<Event(AbiEvent(c), v)>> : v \in Amounts}

\* eventName / eventArgName of the call descriptors
eventName(c) ==
    CASE c = "createMarket" -> "MarketCreation"
      [] c = "buy" -> "OutcomeTokenPurchase"
      [] c = "sell" -> "OutcomeTokenSale"
      [] c = "shortSell" -> "OutcomeTokenShortSale"
      [] OTHER -> "Approval"

eventArgName(c) ==
    CASE c = "createMarket" -> "market"
      [] c = "sell" -> "profit"
      [] OTHER -> "cost"

matchingLogs(logs, name) == {k \in 1..Len(logs) : logs[k].event = name}

\* requireEventFromTXResult taking the first event of that name, however many
requireFirstEvent(logs, name) ==
    LET m == matchingLogs(logs, name)
    IN  IF m = {} THEN [ok |-> FALSE, err |-> "MissingEventError", at |-> 0]
        ELSE [ok |-> TRUE, err |-> "none",
              at |-> CHOOSE k \in m : \A j \in m : k <= j]

\* requireEventFromTXResult: the one event of that name, else the operation fails
requireEventFromTXResult(logs, name) ==
    LET m == matchingLogs(logs, name)
    IN  IF m = {} THEN [ok |-> FALSE, err |-> "MissingEventError", at |-> 0]
        ELSE IF Cardinality(m) > 1
             THEN [ok |-> FALSE, err |-> "TooManyEventsError", at |-> 0]
             ELSE [ok |-> TRUE, err |-> "none", at |-> CHOOSE k \in m : TRUE]

\* the tail of sendTransactionAndGetResult: the requested field of the event
eventResult(logs, name, field) ==
    LET r == requireEventFromTXResult(logs, name)
    IN  IF ~r.ok THEN [ok |-> FALSE, err |-> r.err, val |-> 0 - 1]
        ELSE [ok |-> TRUE, err |-> "none",
              val |-> IF field \in DOMAIN logs[r.at].args
                      THEN logs[r.at].args[field] ELSE 0 - 1]

(* ------------------------ Market Operation Layer ----------------------- *)

\* the call an operation issues first, once its arguments are normalized
FirstCall(o) == IF o = "createMarket" THEN "createMarket" ELSE "eventContract"

\* NextCall with the approval of a buy submitted before the fee is known
NextCallApproveEarly(o, c) ==
    CASE o = "buyOutcomeTokens" ->
           (CASE c = "eventContract" -> "collateralToken"
              [] c = "collateralToken" -> "calcCost"
              [] c = "calcCost" -> "approve"
              [] c = "approve" -> "calcMarketFee"
              [] c = "calcMarketFee" -> "buy"
              [] OTHER -> "done")
      [] o = "sellOutcomeTokens" ->
           (CASE c = "eventContract" -> "outcomeTokens"
              [] c = "outcomeTokens" -> "calcProfit"
              [] c = "calcProfit" -> "calcMarketFee"
              [] c = "calcMarketFee" -> "approve"
              [] c = "approve" -> "sell"
              [] OTHER -> "done")
      [] o = "shortSellOutcomeTokens" ->
           (CASE c = "eventContract" -> "collateralToken"
              [] c = "collateralToken" -> "shortSell"
              [] OTHER -> "done")
      [] OTHER -> "done"

\* the call an operation issues once call c has succeeded ("done": it returns)
NextCall(o, c) ==
    CASE o = "buyOutcomeTokens" ->
           (CASE c = "eventContract" -> "collateralToken"
              [] c = "collateralToken" -> "calcCost"
              [] c = "calcCost" -> "calcMarketFee"
              [] c = "calcMarketFee" -> "approve"
              [] c = "approve" -> "buy"
              [] OTHER -> "done")
      [] o = "sellOutcomeTokens" ->
           (CASE c = "eventContract" -> "outcomeTokens"
              [] c = "outcomeTokens" -> "calcProfit"
              [] c = "calcProfit" -> "calcMarketFee"
              [] c = "calcMarketFee" -> "approve"
              [] c = "approve" -> "sell"
              [] OTHER -> "done")
      [] o = "shortSellOutcomeTokens" ->
           (CASE c = "eventContract" -> "collateralToken"
              [] c = "collateralToken" -> "shortSell"
              [] OTHER -> "done")
      [] OTHER -> "done"

\* cost = baseCost.add(fee) and minProfit = baseProfit.sub(fee): BigNumber
\* arithmetic, exact and signed
buyCostNoFee(b, f) == b
buyCost(b, f) == b + f
sellMinProfit(b, f) == b - f

\* the amount approved for the market before a buy or a sell
approveAmount(count, amount) == count

\* methodArgs of the shortSell transaction: a cost floor of 0
shortSellArgsNonZero(index, count) == <<index, count, count>>
shortSellArgs(index, count) == <<index, count, 0>>

\* the call descriptor of call c of operation o: target contract and arguments.
\* a: the normalized arguments, tok: the token contract looked up, b: the base
\* cost or profit, t: cost or minProfit, ret: the value the previous call returned
Descriptor(o, c, a, tok, b, t, ret) ==
    CASE c = "eventContract" -> [call |-> c, target |-> a[1], args |-> <<>>]
      [] c = "collateralToken" -> [call |-> c, target |-> ret, args |-> <<>>]
      [] c = "outcomeTokens" -> [call |-> c, target |-> ret, args |-> <<a[2]>>]
      [] c \in {"calcCost", "calcProfit"} ->
           [call |-> c, target |-> lmsrMarketMaker, args |-> <<a[1], a[2], a[3]>>]
      [] c = "calcMarketFee" -> [call |-> c, target |-> a[1], args |-> <<b>>]
      [] c = "approve" ->
           [call |-> c, target |-> tok, args |-> <<a[1], approveAmount(a[3], t)>>]
      [] c \in {"buy", "sell"} ->
           [call |-> c, target |-> a[1], args |-> <<a[2], a[3], t>>]
      [] c = "shortSell" ->
           [call |-> c, target |-> a[1], args |-> shortSellArgs(a[2], a[3])]
      [] OTHER -> [call |-> c, target |-> marketFactory, args |-> <<a[1], a[2], a[3]>>]

Init ==
    /\ op = [i \in Procs |-> "none"]
    /\ pc = [i \in Procs |-> "idle"]
    /\ args = [i \in Procs |-> <<0, 0, 0>>]
    /\ token = [i \in Procs |-> 0]
    /\ base = [i \in Procs |-> 0]
    /\ fee = [i \in Procs |-> 0]
    /\ total = [i \in Procs |-> 0]
    /\ confirmed = [i \in Procs |-> FALSE]
    /\ receipt = [i \in Procs |-> <<>>]
    /\ log = [i \in Procs |-> <<>>]
    /\ result = [i \in Procs |-> 0 - 1]
    /\ err = [i \in Procs |-> "none"]
    /\ allowance = [t \in Tokens |-> 0]

\* issue call c (append its descriptor to the calls made) and await it;
\* with c = "done" the invocation has returned
Goto(i, c, d) ==
    /\ pc' = [pc EXCEPT ![i] = c]
    /\ log' = [log EXCEPT ![i] = IF c \in Calls THEN Append(@, d) ELSE @]

\* Throw with the failed call issued once more before giving up
ThrowAfterRetry(i, e) ==
    /\ IF Cardinality({k \in DOMAIN log[i] : log[i][k].call = pc[i]}) < 2
       THEN /\ log' = [log EXCEPT ![i] = Append(@, @[Len(@)])]
            /\ confirmed' = [confirmed EXCEPT ![i] = FALSE]
            /\ UNCHANGED <<pc, err>>
       ELSE /\ pc' = [pc EXCEPT ![i] = "rejected"]
            /\ err' = [err EXCEPT ![i] = e]
            /\ UNCHANGED <<log, confirmed>>
    /\ UNCHANGED <<op, args, token, base, fee, total, receipt, result, allowance>>

\* an exception in the async function: the promise rejects with e and nothing
\* after the throwing statement runs
Throw(i, e) ==
    /\ pc' = [pc EXCEPT ![i] = "rejected"]
    /\ err' = [err EXCEPT ![i] = e]
    /\ UNCHANGED <<op, args, token, base, fee, total, confirmed, receipt, log,
                   result, allowance>>

\* Begin with the first call issued before the arguments are checked
BeginCallFirst(o, n) ==
    [pc |-> IF n.ok THEN FirstCall(o) ELSE "rejected",
     err |-> IF n.ok THEN "none" ELSE "ArgumentError",
     args |-> n.val,
     log |-> <<Descriptor(o, FirstCall(o), n.val, 0, 0, 0, 0)>>]

\* the synchronous head of an operation: normalizeWeb3Args, then the first call
Begin(o, n) ==
    IF n.ok
    THEN [pc |-> FirstCall(o), err |-> "none", args |-> n.val,
          log |-> <<Descriptor(o, FirstCall(o), n.val, 0, 0, 0, 0)>>]
    ELSE [pc |-> "rejected", err |-> "ArgumentError", args |-> <<0, 0, 0>>,
          log |-> <<>>]

Invoke(i, o, raw) ==
    /\ pc[i] = "idle"
    /\ LET s == Begin(o, normalizeWeb3Args(raw, o))
       IN  /\ op' = [op EXCEPT ![i] = o]
           /\ pc' = [pc EXCEPT ![i] = s.pc]
           /\ err' = [err EXCEPT ![i] = s.err]
           /\ args' = [args EXCEPT ![i] = s.args]
           /\ log' = [log EXCEPT ![i] = s.log]
    /\ UNCHANGED <<token, base, fee, total, confirmed, receipt, result, allowance>>

\* market.eventContract() resolved
EventContractReturn(i) ==
    /\ pc[i] = "eventContract"
    /\ LET e == eventContractOf(log[i][Len(log[i])].target)
           c == NextCall(op[i], pc[i])
       IN  Goto(i, c, Descriptor(op[i], c, args[i], token[i], base[i], total[i], e))
    /\ UNCHANGED <<op, args, token, base, fee, total, confirmed, receipt, result,
                   err, allowance>>

\* event.collateralToken() or event.outcomeTokens(index) resolved
TokenReturn(i) ==
    /\ pc[i] \in {"collateralToken", "outcomeTokens"}
    /\ LET d == log[i][Len(log[i])]
           t == IF pc[i] = "collateralToken" THEN collateralTokenOf(d.target)
                ELSE outcomeTokensOf(d.target, d.args[1])
           c == NextCall(op[i], pc[i])
       IN  /\ token' = [token EXCEPT ![i] = t]
           /\ Goto(i, c, Descriptor(op[i], c, args[i], t, base[i], total[i], t))
    /\ UNCHANGED <<op, args, base, fee, total, confirmed, receipt, result, err,
                   allowance>>

\* lmsrMarketMaker.calcCost / calcProfit resolved with b
CalcReturn(i, b) ==
    /\ pc[i] \in {"calcCost", "calcProfit"}
    /\ base' = [base EXCEPT ![i] = b]
    /\ LET c == NextCall(op[i], pc[i])
       IN  Goto(i, c, Descriptor(op[i], c, args[i], token[i], b, total[i], b))
    /\ UNCHANGED <<op, args, token, fee, total, confirmed, receipt, result, err,
                   allowance>>

\* market.calcMarketFee(base) resolved with f
FeeReturn(i, f) ==
    /\ pc[i] = "calcMarketFee"
    /\ LET t == IF op[i] = "sellOutcomeTokens" THEN sellMinProfit(base[i], f)
                ELSE buyCost(base[i], f)
           c == NextCall(op[i], pc[i])
       IN  /\ fee' = [fee EXCEPT ![i] = f]
           /\ total' = [total EXCEPT ![i] = t]
           /\ Goto(i, c, Descriptor(op[i], c, args[i], token[i], base[i], t, f))
    /\ UNCHANGED <<op, args, token, base, confirmed, receipt, result, err, allowance>>

\* a read-only call failed
ReadFail(i) ==
    /\ pc[i] \in ReadCalls
    /\ Throw(i, "CallFailure")

\* the transaction awaited was included: its receipt is available.  An approve
\* that emitted Approval has set the caller's allowance for the spender.
TxConfirmed(i, logs) ==
    /\ pc[i] \in TxCalls
    /\ ~confirmed[i]
    /\ confirmed' = [confirmed EXCEPT ![i] = TRUE]
    /\ receipt' = [receipt EXCEPT ![i] = logs]
    /\ allowance' =
         IF pc[i] = "approve" /\ token[i] \in Tokens
            /\ matchingLogs(logs, "Approval") # {}
         THEN [allowance EXCEPT ![token[i]] = log[i][Len(log[i])].args[2]]
         ELSE allowance
    /\ UNCHANGED <<op, pc, args, token, base, fee, total, log, result, err>>

\* the transaction awaited reverted or could not be mined
TxFail(i) ==
    /\ pc[i] \in TxCalls
    /\ ~confirmed[i]
    /\ Throw(i, "TransactionFailure")

\* token.approve(...) resolved: requireEventFromTXResult(receipt, 'Approval'),
\* then the main transaction is submitted
ApproveReturn(i) ==
    /\ pc[i] = "approve"
    /\ confirmed[i]
    /\ LET r == requireEventFromTXResult(receipt[i], eventName(pc[i]))
           c == NextCall(op[i], pc[i])
       IN  IF r.ok
           THEN /\ Goto(i, c, Descriptor(op[i], c, args[i], token[i], base[i],
                                         total[i], 0))
                /\ confirmed' = [confirmed EXCEPT ![i] = FALSE]
                /\ receipt' = [receipt EXCEPT ![i] = <<>>]
                /\ UNCHANGED <<op, args, token, base, fee, total, result, err,
                               allowance>>
           ELSE Throw(i, r.err)

\* sendTransactionAndGetResult resolved: the field of the expected event
MainReturn(i) ==
    /\ pc[i] \in MainCalls
    /\ confirmed[i]
    /\ LET r == eventResult(receipt[i], eventName(pc[i]), eventArgName(pc[i]))
           c == NextCall(op[i], pc[i])
       IN  IF r.ok
           THEN /\ Goto(i, c, Descriptor(op[i], c, args[i], token[i], base[i],
                                         total[i], r.val))
                /\ result' = [result EXCEPT ![i] = r.val]
                /\ UNCHANGED <<op, args, token, base, fee, total, confirmed,
                               receipt, err, allowance>>
           ELSE Throw(i, r.err)

\* one invocation, any operation, any call, any answer of the chain
Next ==
    \E i \in Solo :
        \/ \E o \in Ops : \E raw \in RawCalls(o) : Invoke(i, o, raw)
        \/ EventContractReturn(i)
        \/ TokenReturn(i)
        \/ \E b \in Amounts : CalcReturn(i, b)
        \/ \E f \in Amounts : FeeReturn(i, f)
        \/ ReadFail(i)
        \/ \E logs \in Receipts(pc[i]) : TxConfirmed(i, logs)
        \/ TxFail(i)
        \/ ApproveReturn(i)
        \/ MainReturn(i)

Spec == Init /\ [][Next]_vars

\* the well-formed positional calls of a buy or a sell of outcome token 1
TradeCalls ==
    {[shape |-> "positional",
      vals |-> << [kind |-> "hex", v |-> MarketAddr], [kind |-> "number", v |-> 1],
                  [kind |-> "number", v |-> n] >>] : n \in 1..MaxCount}

\* two invocations of buyOutcomeTokens or sellOutcomeTokens by one caller on
\* the same market and token, their steps interleaved in any order
NextConc ==
    \E i \in Procs :
        \/ \E o \in {"buyOutcomeTokens", "sellOutcomeTokens"} :
              \E raw \in TradeCalls : Invoke(i, o, raw)
        \/ EventContractReturn(i)
        \/ TokenReturn(i)
        \/ \E b \in Amounts : CalcReturn(i, b)
        \/ \E f \in Amounts : FeeReturn(i, f)
        \/ ReadFail(i)
        \/ \E logs \in PlainReceipts(pc[i]) : TxConfirmed(i, logs)
        \/ TxFail(i)
        \/ ApproveReturn(i)
        \/ MainReturn(i)

SpecConc == Init /\ [][NextConc]_vars

(* ------------------------------ properties ----------------------------- *)

\* the positions of call c among the calls invocation i has issued
At(l, c) == {k \in DOMAIN l : l[k].call = c}
Has(i, c) == At(log[i], c) # {}
LastCall(i) == log[i][Len(log[i])]

\* C1: every buy transaction is submitted with (outcomeTokenIndex,
\* outcomeTokenCount, b + f), b the answer of calcCost(market, index, count)
\* and f the answer of calcMarketFee(b), the sum being exact.
C1_BuyCostIsBasePlusFee ==
    \A i \in Procs : \A k \in At(log[i], "buy") :
        /\ log[i][k].args = <<args[i][2], args[i][3], base[i] + fee[i]>>
        /\ \E c \in At(log[i], "calcCost") : log[i][c].args = args[i]
        /\ \E c \in At(log[i], "calcMarketFee") : log[i][c].args = <<base[i]>>

C1_Witness ==
    \E i \in Procs : Has(i, "buy") /\ base[i] > 0 /\ fee[i] > 0

\* C2: a sell whose fee exceeds its base profit is rejected: no approval and
\* no sell transaction is submitted for it, and no sell transaction ever
\* carries a negative minProfit.
C2_SellRejectsFeeAboveProfit ==
    \A i \in Procs :
        /\ (op[i] = "sellOutcomeTokens" /\ fee[i] > base[i])
              => ~Has(i, "approve") /\ ~Has(i, "sell")
        /\ \A k \in At(log[i], "sell") : log[i][k].args[3] >= 0

\* C3: every shortSell transaction carries (outcomeTokenIndex,
\* outcomeTokenCount, 0), and a short sale never submits an approval.
C3_ShortSellFloorZeroNoApproval ==
    \A i \in Procs :
        /\ \A k \in At(log[i], "shortSell") :
              log[i][k].args = <<args[i][2], args[i][3], 0>>
        /\ op[i] = "shortSellOutcomeTokens" => ~Has(i, "approve")

C3_Witness ==
    \E i \in Procs : Has(i, "shortSell") /\ args[i][3] > 0 /\ pc[i] = "done"

\* C4: an invocation whose arguments fail normalization rejects with
\* ArgumentError having issued no contract call at all, and only such an
\* invocation ends without having issued a call.
C4_ArgumentErrorBeforeNetwork ==
    \A i \in Procs :
        /\ err[i] = "ArgumentError" => pc[i] = "rejected" /\ log[i] = <<>>
        /\ (pc[i] # "idle" /\ log[i] = <<>>) => err[i] = "ArgumentError"

C4_Witness ==
    \E i \in Procs : op[i] \in TradeOps /\ err[i] = "ArgumentError"

\* C5: an operation returns the requested field of the expected event exactly
\* when the confirmed receipt of its main transaction holds that event once;
\* with none it fails with MissingEventError, with several it fails, and an
\* event of another name never supplies the value.
C5_ExactlyOneExpectedEvent ==
    \A i \in Procs :
        (pc[i] \in {"done", "rejected"} /\ log[i] # <<>>
           /\ LastCall(i).call \in MainCalls /\ confirmed[i]) =>
            LET c == LastCall(i).call
                m == {k \in DOMAIN receipt[i] : receipt[i][k].event = eventName(c)}
            IN  /\ pc[i] = "done" <=> Cardinality(m) = 1
                /\ pc[i] = "done" =>
                      \A k \in m : result[i] = receipt[i][k].args[eventArgName(c)]
                /\ m = {} => err[i] = "MissingEventError"

C5_Witness ==
    \E i \in Procs :
        /\ pc[i] = "done" /\ Len(receipt[i]) = 2
        /\ \E k \in DOMAIN receipt[i] :
              /\ receipt[i][k].event = "Transfer"
              /\ receipt[i][k].args["value"] # result[i]

\* C6: whatever the interleaving of two invocations, each submits its buy or
\* sell while the allowance in effect on its token for the market is the
\* amount its own approval set, as it is when the invocation runs alone.
C6_OwnAllowanceAtSubmission ==
    [][\A i \in Procs :
          (pc[i] = "approve" /\ pc'[i] \in {"buy", "sell"}) =>
              allowance[token[i]] = LastCall(i).args[2]]_vars

\* C7: no step is retried: every call is issued at most once, a failed step
\* rejects the invocation with its error and issues nothing further, and a
\* settled invocation never moves again.
C7_NoRetryFailureAborts ==
    [][\A i \in Procs :
          /\ \A c \in Calls : Cardinality(At(log'[i], c)) <= 1
          /\ (pc[i] # "rejected" /\ pc'[i] = "rejected") =>
                log'[i] = log[i] /\ err'[i] # "none"
          /\ pc[i] \in {"done", "rejected"} =>
                pc'[i] = pc[i] /\ log'[i] = log[i] /\ err'[i] = err[i]]_vars

C7_Witness ==
    \E i \in Procs :
        /\ pc[i] = "rejected" /\ err[i] = "TransactionFailure"
        /\ Has(i, "approve") /\ ~Has(i, "buy") /\ ~Has(i, "sell")

\* C8: in a buy or a sell the four read-only queries precede the approval, the
\* approval precedes the main transaction, and the main transaction is
\* submitted only on the approval's receipt and only if it holds an Approval
\* event; without one the invocation is rejected.
ReadsOf(o) ==
    IF o = "buyOutcomeTokens"
    THEN {"eventContract", "collateralToken", "calcCost", "calcMarketFee"}
    ELSE {"eventContract", "outcomeTokens", "calcProfit", "calcMarketFee"}

C8_ReadsThenApprovalThenMain ==
    [][\A i \in Procs :
          op'[i] \in {"buyOutcomeTokens", "sellOutcomeTokens"} =>
            LET l == log'[i]
                main == IF op'[i] = "buyOutcomeTokens" THEN "buy" ELSE "sell"
            IN  /\ \A a \in At(l, "approve") : \A r \in ReadsOf(op'[i]) :
                      \E k \in At(l, r) : k < a
                /\ \A k \in DOMAIN l : l[k].call \in ReadCalls =>
                      \A a \in At(l, "approve") : k < a
                /\ \A b \in At(l, main) : \E a \in At(l, "approve") : a < b
                /\ (pc[i] # main /\ pc'[i] = main) =>
                      /\ pc[i] = "approve" /\ confirmed[i]
                      /\ matchingLogs(receipt[i], "Approval") # {}
                /\ (pc[i] = "approve" /\ confirmed[i] /\ pc'[i] # pc[i]
                      /\ matchingLogs(receipt[i], "Approval") = {}) =>
                      pc'[i] = "rejected" /\ log'[i] = log[i]]_vars

C8_Witness ==
    \E i \in Procs : pc[i] = "done" /\ (Has(i, "buy") \/ Has(i, "sell"))

\* C9: the amount a buy approved on the collateral token is at least the cost
\* it passes to buy.
C9_ApprovalCoversCost ==
    \A i \in Procs : \A k \in At(log[i], "buy") :
        \E a \in At(log[i], "approve") : log[i][a].args[2] >= log[i][k].args[3]

\* C10: a short sale issues no contract call but the shortSell transaction, so
\* it is never rejected because a read of the event contract or of the
\* collateral token failed.
C10_ShortSellDirect ==
    \A i \in Procs :
        op[i] = "shortSellOutcomeTokens" =>
            /\ \A k \in DOMAIN log[i] : log[i][k].call = "shortSell"
            /\ ~(pc[i] = "rejected" /\ err[i] = "CallFailure")

====
